---- MODULE Spec2Model ----
(***************************************************************************)
(* A model of passworld's record store: the Database class of              *)
(* src/database.py (a thin wrapper around one sqlite3 connection and       *)
(* cursor), the schema set up by initialization() of src/function.py and   *)
(* the export command of src/main.py.                                      *)
(*                                                                         *)
(* Text values are sequences of one-character strings, so that the         *)
(* f-string interpolation of predicate values into the WHERE clause and    *)
(* SQLite's reading of the resulting string literal are computed rather    *)
(* than assumed.  Python's None is the value None below; integers are      *)
(* TLA+ integers and only ever live in the id column.                      *)
(***************************************************************************)
EXTENDS Integers, Sequences, FiniteSets, TLC

\* ---------------------------------------------------------------------
\* Bounds of the model
\* ---------------------------------------------------------------------
MaxRows == 2

MaxId == 2

MaxLimit == 1

\* ---------------------------------------------------------------------
\* Values
\* ---------------------------------------------------------------------
\* A Python / SQLite value: an integer, a text or None (NULL).
IntV(n) == [t |-> "int", i |-> n, s |-> <<>>]

TextV(s) == [t |-> "text", i |-> 0, s |-> s]

None == [t |-> "null", i |-> 0, s |-> <<>>]

Quote == "'"

PASSWORD_TBL == "passwords"

OTHER_TBL == "other"

TableNames == {PASSWORD_TBL, OTHER_TBL}

RECURSIVE StrOfNat(_)
StrOfNat(n) ==
    LET d == <<"0", "1", "2", "3", "4", "5", "6", "7", "8", "9">>
    IN  IF n < 10 THEN <<d[n + 1]>> ELSE StrOfNat(n \div 10) \o <<d[(n % 10) + 1]>>

\* str(value) as the f-string "'{value}'" computes it
Format(v) ==
    CASE v.t = "int" -> IF v.i < 0 THEN <<"-">> \o StrOfNat(0 - v.i) ELSE StrOfNat(v.i)
      [] v.t = "null" -> <<"N", "o", "n", "e">>
      [] OTHER -> v.s

DigitVal(c) ==
    CASE c = "0" -> 0 [] c = "1" -> 1 [] c = "2" -> 2 [] c = "3" -> 3
      [] c = "4" -> 4 [] c = "5" -> 5 [] c = "6" -> 6 [] c = "7" -> 7
      [] c = "8" -> 8 [] c = "9" -> 9 [] OTHER -> 10

IsDigits(s) == Len(s) > 0 /\ \A i \in 1..Len(s) : DigitVal(s[i]) < 10

RECURSIVE NatOfStr(_)
NatOfStr(s) ==
    IF Len(s) = 0 THEN 0
    ELSE 10 * NatOfStr(SubSeq(s, 1, Len(s) - 1)) + DigitVal(s[Len(s)])

\* SQLite reading the string literal that starts at position i of s, just
\* after the opening quote: a doubled quote is one quote character, a single
\* quote ends the literal, and the end of the statement before that is an
\* "unrecognized token" error.  rest is what follows the closing quote.
RECURSIVE LexFrom(_, _, _)
LexFrom(s, i, acc) ==
    IF i > Len(s) THEN [ok |-> FALSE, lit |-> <<>>, rest |-> <<>>]
    ELSE IF s[i] = Quote
         THEN IF i + 1 <= Len(s) /\ s[i + 1] = Quote
              THEN LexFrom(s, i + 2, Append(acc, Quote))
              ELSE [ok |-> TRUE, lit |-> acc, rest |-> SubSeq(s, i + 1, Len(s))]
         ELSE LexFrom(s, i + 1, Append(acc, s[i]))

\* The literal SQLite reads out of '{value}': the statement is accepted
\* only if the literal closes exactly at the quote the f-string appended.
Literal(v) ==
    LET s == <<Quote>> \o Format(v) \o <<Quote>>
        r == LexFrom(s, 2, <<>>)
    IN  [ok |-> r.ok /\ r.rest = <<>>, lit |-> r.lit]

\* ---------------------------------------------------------------------
\* The SQLite database file: tables, their columns and their rows
\* ---------------------------------------------------------------------
\* The column tuples initialization() passes to Database.create
PasswordColumns ==
    << <<"id", "INTEGER", "PRIMARY", "KEY">>,
       <<"name", "TEXT", "NOT NULL">>,
       <<"website", "TEXT", "NOT NULL">>,
       <<"username", "TEXT">>,
       <<"password", "TEXT", "NOT NULL">>,
       <<"note", "TEXT">> >>

NoTable == [cols |-> <<>>, rows |-> <<>>]

\* A database file that has just been created by sqlite3.connect
EmptyDb == [master |-> <<>>, tbl |-> [n \in TableNames |-> NoTable]]

Range(f) == {f[x] : x \in DOMAIN f}

\* One column definition of CREATE TABLE as SQLite parses it.  The model
\* knows the constraints PRIMARY KEY, NOT NULL and UNIQUE (other words
\* after the type are read by SQLite as part of the type name).
ColumnDef(column) ==
    LET constraints == SubSeq(column, 3, Len(column))
    IN  [name    |-> column[1],
         type    |-> column[2],
         notnull |-> constraints = <<"NOT NULL">> \/ constraints = <<"NOT", "NULL">>,
         pk      |-> IF constraints = <<"PRIMARY", "KEY">> THEN 1 ELSE 0,
         unique  |-> constraints = <<"UNIQUE">>]

ColumnDefs(columns) == [k \in 1..Len(columns) |-> ColumnDef(columns[k])]

Names(cols) == {cols[k].name : k \in 1..Len(cols)}

ColumnOf(cols, name) == cols[CHOOSE k \in 1..Len(cols) : cols[k].name = name]

\* CREATE TABLE accepts the column list: at least one column,
\* distinct names and at most one PRIMARY KEY.  Every table of
\* the model keeps its rowid in an "id INTEGER PRIMARY KEY" column.
ValidColumns(cols) ==
    /\ Len(cols) > 0
    /\ \A j, k \in 1..Len(cols) : cols[j].name = cols[k].name => j = k
    /\ Cardinality({k \in 1..Len(cols) : cols[k].pk = 1}) <= 1

\* PRAGMA table_info(table): one tuple (cid, name, type, notnull,
\* dflt_value, pk) per column, none for a table that does not exist
table_info(db, table) ==
    LET cols == db.tbl[table].cols
    IN  [k \in 1..Len(cols) |->
            <<k - 1, cols[k].name, cols[k].type,
              IF cols[k].notnull THEN 1 ELSE 0, None, cols[k].pk>>]

Exists(db, table) == \E k \in 1..Len(db.master) : db.master[k] = table

\* Column affinity applied to a value that is stored
IsNumeric(s) == IsDigits(s) \/ (Len(s) > 1 /\ s[1] = "-" /\ IsDigits(Tail(s)))

NumericOf(s) ==
    IF IsDigits(s) THEN IntV(NatOfStr(s))
    ELSE IF IsNumeric(s) THEN IntV(0 - NatOfStr(Tail(s))) ELSE TextV(s)

Affinity(type, v) ==
    CASE type = "INTEGER" /\ v.t = "text" -> NumericOf(v.s)
      [] type = "TEXT" /\ v.t = "int" -> TextV(Format(v))
      [] OTHER -> v

\* `column`='literal' evaluated on one row: the literal is a text, a column
\* of INTEGER affinity converts it to a number when it looks like one, and
\* NULL equals nothing.
Holds(cols, row, column, lit) ==
    LET c == ColumnOf(cols, column)
        rhs == IF c.type = "INTEGER" THEN NumericOf(lit) ELSE TextV(lit)
    IN  row[column].t # "null" /\ row[column] = rhs

\* A predicate (condition dict) is a sequence of <<column, value>> items in
\* dict order; the empty sequence stands for None and for {} alike, which
\* "if condition:" does not tell apart.
WhereOk(cols, condition) ==
    \A k \in 1..Len(condition) :
        /\ condition[k][1] \in Names(cols)
        /\ Literal(condition[k][2]).ok

Where(cols, row, condition) ==
    \A k \in 1..Len(condition) :
        Holds(cols, row, condition[k][1], Literal(condition[k][2]).lit)

\* NOT NULL, PRIMARY KEY and UNIQUE constraints on a candidate row list
Violates(cols, rows) ==
    \/ \E k \in 1..Len(cols), r \in 1..Len(rows) :
          cols[k].notnull /\ rows[r][cols[k].name].t = "null"
    \/ \E k \in 1..Len(cols), q, r \in 1..Len(rows) :
          /\ cols[k].unique \/ cols[k].pk = 1
          /\ q # r
          /\ rows[q][cols[k].name].t # "null"
          /\ rows[q][cols[k].name] = rows[r][cols[k].name]

\* ---------------------------------------------------------------------
\* Results of the Database methods
\* ---------------------------------------------------------------------
R_None == [kind |-> "None", int |-> 0, list |-> <<>>]

R_False == [kind |-> "False", int |-> 0, list |-> <<>>]

R_True == [kind |-> "True", int |-> 0, list |-> <<>>]

R_Bool(b) == IF b THEN R_True ELSE R_False

R_Int(n) == [kind |-> "int", int |-> n, list |-> <<>>]

R_List(l) == [kind |-> "list", int |-> 0, list |-> l]

R_Tuple(t) == [kind |-> "tuple", int |-> 0, list |-> t]

\* What a call leaves behind: the handle, the value returned, the exception
\* that left the call ("" when it returned) and whether the "does not
\* exist" panel was printed.
Out(h, res, exc, diag) == [h |-> h, res |-> res, exc |-> exc, diag |-> diag]

SqlError(h) == Out(h, R_None, "sqlite3.Error", FALSE)

\* ---------------------------------------------------------------------
\* Database: the decorators
\* ---------------------------------------------------------------------
\* A handle is [open, disk, db, intx]: the connection is open, the
\* committed file, the file as the connection sees it, and whether the
\* connection has begun a transaction.

\* Database.error: a sqlite3.Error becomes the return value False, any
\* other exception passes through
error(out) ==
    IF out.exc = "sqlite3.Error" THEN [out EXCEPT !.res = R_False, !.exc = ""] ELSE out

tables_method(h) ==
    IF ~h.open THEN SqlError(h) ELSE Out(h, R_List(h.db.master), "", FALSE)

tables(h) == error(tables_method(h))

\* check with the membership test turned around
check_inverted(h, table, out) ==
    IF table # ""
    THEN LET ts == tables(h)
         IN  IF ts.res.kind # "list" THEN Out(h, R_None, "TypeError", FALSE)
             ELSE IF \E k \in 1..Len(ts.res.list) : ts.res.list[k] = table
                  THEN [out EXCEPT !.diag = TRUE]
                  ELSE out
    ELSE out

\* Database.check: "table not in self.tables()" is evaluated for a
\* non-empty table name; on a list it decides the panel, on the False that
\* tables() returns after an error it raises TypeError.  The method is
\* called in either case.
check(h, table, out) ==
    IF table # ""
    THEN LET ts == tables(h)
         IN  IF ts.res.kind # "list" THEN Out(h, R_None, "TypeError", FALSE)
             ELSE IF \A k \in 1..Len(ts.res.list) : ts.res.list[k] # table
                  THEN [out EXCEPT !.diag = TRUE]
                  ELSE out
    ELSE out

\* ---------------------------------------------------------------------
\* Database: schema methods
\* ---------------------------------------------------------------------
\* create without IF NOT EXISTS handling: the table is made anew
create_anew(h, table, columns) ==
    LET cols == ColumnDefs(columns)
        made == [master |-> Append(h.db.master, table),
                 tbl |-> [h.db.tbl EXCEPT ![table] = [cols |-> cols, rows |-> <<>>]]]
    IN  IF ~h.open \/ Len(columns) = 0 \/ ~ValidColumns(cols) THEN SqlError(h)
        ELSE Out([h EXCEPT !.db = made,
                           !.disk = IF h.intx THEN h.disk ELSE made],
                 R_None, "", FALSE)

create_method(h, table, columns) ==
    LET cols == ColumnDefs(columns)
        made == [master |-> Append(h.db.master, table),
                 tbl |-> [h.db.tbl EXCEPT ![table] = [cols |-> cols, rows |-> <<>>]]]
    IN  IF ~h.open \/ Len(columns) = 0 THEN SqlError(h)
        ELSE IF Exists(h.db, table) THEN Out(h, R_None, "", FALSE)
        ELSE IF ~ValidColumns(cols) THEN SqlError(h)
        ELSE Out([h EXCEPT !.db = made,
                           !.disk = IF h.intx THEN h.disk ELSE made],
                 R_None, "", FALSE)

create(h, table, columns) == error(create_method(h, table, columns))

columns_method(h, table) ==
    LET column_info == table_info(h.db, table)
    IN  IF ~h.open THEN SqlError(h)
        ELSE Out(h, R_List([k \in 1..Len(column_info) |-> column_info[k][2]]), "", FALSE)

columns(h, table) == error(check(h, table, columns_method(h, table)))

PkIsOne(column) == column[6] = 1

unique_columns_method(h, table) ==
    LET info == SelectSeq(table_info(h.db, table), PkIsOne)
    IN  IF ~h.open THEN SqlError(h)
        ELSE Out(h, R_List([k \in 1..Len(info) |-> info[k][2]]), "", FALSE)

unique_columns(h, table) == error(check(h, table, unique_columns_method(h, table)))

\* ---------------------------------------------------------------------
\* Database: record methods
\* ---------------------------------------------------------------------
\* The rows of a table are kept in rowid order, the order in which a scan
\* without ORDER BY returns them.
RECURSIVE InsertRow(_, _)
InsertRow(rows, row) ==
    IF Len(rows) = 0 THEN <<row>>
    ELSE IF row["id"].i < rows[1]["id"].i THEN <<row>> \o rows
    ELSE <<rows[1]>> \o InsertRow(Tail(rows), row)

RECURSIVE SortRows(_)
SortRows(rows) ==
    IF Len(rows) = 0 THEN <<>> ELSE InsertRow(SortRows(Tail(rows)), rows[1])

\* The rowid SQLite gives a row inserted without one: one more than the
\* largest rowid in the table, 1 for an empty table
NextRowid(rows) == IF Len(rows) = 0 THEN 1 ELSE rows[Len(rows)]["id"].i + 1

\* A statement that was prepared: INSERT, UPDATE and DELETE make the
\* sqlite3 module begin a transaction before they run
Begun(h) == [h EXCEPT !.intx = TRUE]

\* insert that returns cursor.rowcount in place of cursor.lastrowid
insert_rowcount(h, table, data) ==
    LET cols == h.db.tbl[table].cols
        rows == h.db.tbl[table].rows
        bound == [c \in Names(cols) |->
                    IF c \in DOMAIN data
                    THEN Affinity(ColumnOf(cols, c).type, data[c])
                    ELSE None]
        row == IF bound["id"].t = "null"
               THEN [bound EXCEPT !["id"] = IntV(NextRowid(rows))]
               ELSE bound
        added == InsertRow(rows, row)
    IN  IF ~h.open \/ ~Exists(h.db, table) \/ DOMAIN data = {}
           \/ ~(DOMAIN data \subseteq Names(cols))
        THEN SqlError(h)
        ELSE IF row["id"].t # "int" \/ Violates(cols, added)
        THEN SqlError(Begun(h))
        ELSE Out([Begun(h) EXCEPT !.db.tbl[table].rows = added], R_Int(1), "", FALSE)

insert_method(h, table, data) ==
    LET cols == h.db.tbl[table].cols
        rows == h.db.tbl[table].rows
        bound == [c \in Names(cols) |->
                    IF c \in DOMAIN data
                    THEN Affinity(ColumnOf(cols, c).type, data[c])
                    ELSE None]
        row == IF bound["id"].t = "null"
               THEN [bound EXCEPT !["id"] = IntV(NextRowid(rows))]
               ELSE bound
        added == InsertRow(rows, row)
    IN  IF ~h.open \/ ~Exists(h.db, table) \/ DOMAIN data = {}
           \/ ~(DOMAIN data \subseteq Names(cols))
        THEN SqlError(h)
        ELSE IF row["id"].t # "int" \/ Violates(cols, added)
        THEN SqlError(Begun(h))
        ELSE Out([Begun(h) EXCEPT !.db.tbl[table].rows = added],
                 R_Int(row["id"].i), "", FALSE)

insert(h, table, data) == error(check(h, table, insert_method(h, table, data)))

\* limit is [some, v]: None is [some |-> FALSE], an int n is [some |-> TRUE, v |-> n]
NoLimit == [some |-> FALSE, v |-> 0]

Limit(n) == [some |-> TRUE, v |-> n]

Truthy(limit) == limit.some /\ limit.v # 0

Matching(cols, rows, condition) ==
    SelectSeq(rows, LAMBDA r : Where(cols, r, condition))

\* The tuple cursor.fetchone() gives for one row: the selected columns in
\* the order of the SELECT list
RECURSIVE Project(_, _)
Project(row, projection) ==
    IF Len(projection) = 0 THEN <<>>
    ELSE <<row[Head(projection)]>> \o Project(row, Tail(projection))

\* The list cursor.fetchall() gives: one tuple per row, in table order
RECURSIVE Fetch(_, _)
Fetch(rows, projection) ==
    IF Len(rows) = 0 THEN <<>>
    ELSE <<Project(Head(rows), projection)>> \o Fetch(Tail(rows), projection)

\* select whose WHERE clause is left out in "fetch-one" mode
select_first_row(h, table, cols_arg, condition, mode, limit) ==
    LET cols == h.db.tbl[table].cols
        rows == h.db.tbl[table].rows
        projection == IF Len(cols_arg) > 0 THEN cols_arg
                      ELSE [k \in 1..Len(cols) |-> cols[k].name]
        matched == IF mode = "fetch-one" THEN rows ELSE Matching(cols, rows, condition)
        limited == IF Truthy(limit) /\ mode = "fetch-all"
                      /\ limit.v >= 0 /\ limit.v < Len(matched)
                   THEN SubSeq(matched, 1, limit.v)
                   ELSE matched
        fetched == Fetch(limited, projection)
    IN  IF ~h.open \/ ~Exists(h.db, table)
           \/ ~(Range(projection) \subseteq Names(cols))
           \/ ~WhereOk(cols, condition)
        THEN SqlError(h)
        ELSE IF mode = "fetch-one"
        THEN Out(h, IF Len(fetched) = 0 THEN R_None ELSE R_Tuple(fetched[1]), "", FALSE)
        ELSE Out(h, R_List(fetched), "", FALSE)

select_method(h, table, cols_arg, condition, mode, limit) ==
    LET cols == h.db.tbl[table].cols
        rows == h.db.tbl[table].rows
        projection == IF Len(cols_arg) > 0 THEN cols_arg
                      ELSE [k \in 1..Len(cols) |-> cols[k].name]
        matched == Matching(cols, rows, condition)
        limited == IF Truthy(limit) /\ mode = "fetch-all"
                      /\ limit.v >= 0 /\ limit.v < Len(matched)
                   THEN SubSeq(matched, 1, limit.v)
                   ELSE matched
        fetched == Fetch(limited, projection)
    IN  IF ~h.open \/ ~Exists(h.db, table)
           \/ ~(Range(projection) \subseteq Names(cols))
           \/ ~WhereOk(cols, condition)
        THEN SqlError(h)
        ELSE IF mode = "fetch-one"
        THEN Out(h, IF Len(fetched) = 0 THEN R_None ELSE R_Tuple(fetched[1]), "", FALSE)
        ELSE Out(h, R_List(fetched), "", FALSE)

select(h, table, cols_arg, condition, mode, limit) ==
    error(check(h, table, select_method(h, table, cols_arg, condition, mode, limit)))

update_method(h, table, values, condition) ==
    LET cols == h.db.tbl[table].cols
        rows == h.db.tbl[table].rows
        set(r) == [c \in Names(cols) |->
                     IF c \in DOMAIN values
                     THEN Affinity(ColumnOf(cols, c).type, values[c])
                     ELSE r[c]]
        written == [k \in 1..Len(rows) |->
                      IF Where(cols, rows[k], condition) THEN set(rows[k]) ELSE rows[k]]
        rowcount == Len(Matching(cols, rows, condition))
    IN  IF ~h.open \/ ~Exists(h.db, table) \/ DOMAIN values = {}
           \/ ~(DOMAIN values \subseteq Names(cols))
           \/ ~WhereOk(cols, condition)
        THEN SqlError(h)
        ELSE IF rowcount > 0
                /\ (Violates(cols, written) \/ \E k \in 1..Len(written) : written[k]["id"].t # "int")
        THEN SqlError(Begun(h))
        ELSE Out([Begun(h) EXCEPT !.db.tbl[table].rows = SortRows(written)],
                 R_Bool(rowcount > 0), "", FALSE)

update(h, table, values, condition) ==
    error(check(h, table, update_method(h, table, values, condition)))

delete_method(h, table, condition) ==
    LET cols == h.db.tbl[table].cols
        rows == h.db.tbl[table].rows
        kept == SelectSeq(rows, LAMBDA r : ~Where(cols, r, condition))
        rowcount == Len(rows) - Len(kept)
    IN  IF ~h.open \/ ~Exists(h.db, table) \/ ~WhereOk(cols, condition)
        THEN SqlError(h)
        ELSE Out([Begun(h) EXCEPT !.db.tbl[table].rows = kept],
                 R_Bool(rowcount > 0), "", FALSE)

delete(h, table, condition) == error(check(h, table, delete_method(h, table, condition)))

\* __exit__ without the commit: close() rolls the open transaction back
exit_without_commit(h) ==
    Out([open |-> FALSE, disk |-> h.disk, db |-> h.disk, intx |-> FALSE],
        R_Tuple(<<"args", "kwargs">>), "", FALSE)

\* Database.__exit__: commit, close, and return the pair (args, kwargs).
\* args always holds the three exception slots, so the pair is not empty.
exit_method(h) ==
    Out([open |-> FALSE, disk |-> h.db, db |-> h.db, intx |-> FALSE],
        R_Tuple(<<"args", "kwargs">>), "", FALSE)

\* The with statement: __exit__ runs however the body ended, and an
\* exception of the body goes on to the caller only if what __exit__
\* returned is falsy (an empty tuple is, a non-empty one is not).
with_exit(h, fault) ==
    LET out == exit_method(h)
    IN  [out EXCEPT !.exc = IF Len(out.res.list) > 0 THEN "" ELSE fault]

\* Database(path, file).__enter__(): a new connection to the file
enter_method(d) == [open |-> TRUE, disk |-> d, db |-> d, intx |-> FALSE]

\* initialization() of function.py: the passwords table is created if it
\* is missing, inside a scope of its own
initialization_body(d) ==
    with_exit(create(enter_method(d), PASSWORD_TBL, PasswordColumns).h, "")

\* ---------------------------------------------------------------------
\* State
\* ---------------------------------------------------------------------
VARIABLES
    conn,   \* "none": no Database object yet, "open", "closed"
    disk,   \* the committed contents of the database file
    work,   \* the contents as the connection sees them
    intx,   \* the connection has begun a transaction
    last,   \* the most recent call: arguments, outcome, database before it
    hist,   \* history of the passwords table since it was created
    cli     \* the running command of the CLI, if any

vars == <<conn, disk, work, intx, last, hist, cli>>

EmptyDict == [c \in {} |-> None]

NoCall ==
    [op |-> "", table |-> "", data |-> EmptyDict, columns |-> <<>>,
     condition |-> <<>>, mode |-> "", limit |-> NoLimit, values |-> EmptyDict,
     res |-> R_None, exc |-> "", diag |-> FALSE, open |-> FALSE,
     pre |-> EmptyDb, predisk |-> EmptyDb, fault |-> ""]

Handle == [open |-> conn = "open", disk |-> disk, db |-> work, intx |-> intx]

WithinBounds(db) ==
    \A n \in TableNames :
        /\ Len(db.tbl[n].rows) <= MaxRows
        /\ \A r \in 1..Len(db.tbl[n].rows) : db.tbl[n].rows[r]["id"].i \in 0..MaxId

PasswordRows(db) == db.tbl[PASSWORD_TBL].rows

\* No command is running: the Database class is used on its own
NoCli ==
    [pc |-> "none", cmd |-> "", auth |-> "none", status |-> 0, ops |-> <<>>,
     before |-> <<>>, count |-> 0]

NoHistory == [phase |-> "none", recs |-> <<>>, given |-> 0]

\* hist.given: the largest identity that insert has returned for a record
\* without an id since the passwords table was created, 0 before the first
NextGiven(call, out) ==
    IF /\ call.op = "insert"
       /\ call.table = PASSWORD_TBL
       /\ "id" \notin DOMAIN call.data
       /\ out.res.kind = "int"
       /\ out.res.int > hist.given
    THEN out.res.int
    ELSE hist.given

\* hist follows the passwords table: phase "inserts" while the only changes
\* since its creation are inserts without an id (recs lists them with the
\* identity each was given), "deleted" once delete with {id: 1} has then
\* removed a row, "other" after any other change.
NextHist(call, out) ==
    LET created == Exists(out.h.db, PASSWORD_TBL) /\ ~Exists(work, PASSWORD_TBL)
    IN  IF created THEN [phase |-> "inserts", recs |-> <<>>, given |-> 0]
        ELSE IF call.table # PASSWORD_TBL \/ out.res.kind \notin {"int", "True"}
                \/ call.op \notin {"insert", "update", "delete"}
        THEN hist
        ELSE IF call.op = "insert" /\ hist.phase = "inserts" /\ "id" \notin DOMAIN call.data
        THEN [hist EXCEPT !.recs = Append(@, [id |-> out.res.int, data |-> call.data]),
                          !.given = NextGiven(call, out)]
        ELSE IF call.op = "delete" /\ hist.phase = "inserts"
                /\ call.condition = << <<"id", IntV(1)>> >>
        THEN [phase |-> "deleted", recs |-> Tail(hist.recs), given |-> hist.given]
        ELSE [phase |-> "other", recs |-> <<>>, given |-> NextGiven(call, out)]

\* A method called on the Database object, in or after its scope
Call(call, out) ==
    /\ conn \in {"open", "closed"}
    /\ WithinBounds(out.h.db)
    /\ conn' = conn
    /\ disk' = out.h.disk
    /\ work' = out.h.db
    /\ intx' = out.h.intx
    /\ last' = [call EXCEPT !.res = out.res, !.exc = out.exc, !.diag = out.diag,
                            !.open = (conn = "open"), !.pre = work,
                            !.predisk = disk]
    /\ hist' = NextHist(call, out)
    /\ UNCHANGED cli

\* ---------------------------------------------------------------------
\* Inputs
\* ---------------------------------------------------------------------
A == TextV(<<"a">>)

Apostrophe == TextV(<<Quote>>)

TwoQuotes == TextV(<<Quote, Quote>>)

OtherColumns == << <<"id", "INTEGER", "PRIMARY", "KEY">>, <<"name", "TEXT", "UNIQUE">> >>

TwoKeys == << <<"id", "INTEGER", "PRIMARY", "KEY">>, <<"name", "TEXT", "PRIMARY", "KEY">> >>

Entry(name) == [name |-> name, website |-> A, password |-> A]

\* Records offered to insert: complete entries, one whose name holds an
\* apostrophe, entries with an explicit id (as an int and as a text),
\* one without its website and one whose name is None
Datas ==
    {Entry(A), Entry(Apostrophe),
     [id |-> IntV(2), name |-> A, website |-> A, password |-> A],
     [id |-> TextV(<<"2">>), name |-> A, website |-> A, password |-> A],
     [name |-> A, password |-> A],
     Entry(None)}

Updates ==
    {[name |-> A], [name |-> Apostrophe, note |-> A], [name |-> None]}

ById(n) == << <<"id", IntV(n)>> >>

ByName(v) == << <<"name", v>> >>

Conditions == {<<>>, ById(1), ByName(A), ByName(Apostrophe), ByName(TwoQuotes)}

SelectConditions ==
    {<<>>, ById(1), ByName(Apostrophe), << <<"id", IntV(1)>>, <<"name", A>> >>}

Limits == {NoLimit} \cup {Limit(n) : n \in 0..MaxLimit}

Modes == {"fetch-one", "fetch-all"}

\* ---------------------------------------------------------------------
\* Calls
\* ---------------------------------------------------------------------
CallTables == Call([NoCall EXCEPT !.op = "tables"], tables(Handle))

CallCreate(table, cols) ==
    Call([NoCall EXCEPT !.op = "create", !.table = table, !.columns = cols],
         create(Handle, table, cols))

CallColumns(table) ==
    Call([NoCall EXCEPT !.op = "columns", !.table = table], columns(Handle, table))

CallUniqueColumns(table) ==
    Call([NoCall EXCEPT !.op = "unique_columns", !.table = table],
         unique_columns(Handle, table))

CallInsert(table, data) ==
    Call([NoCall EXCEPT !.op = "insert", !.table = table, !.data = data],
         insert(Handle, table, data))

CallSelect(table, cols, condition, mode, limit) ==
    Call([NoCall EXCEPT !.op = "select", !.table = table, !.columns = cols,
                        !.condition = condition, !.mode = mode, !.limit = limit],
         select(Handle, table, cols, condition, mode, limit))

CallUpdate(table, values, condition) ==
    Call([NoCall EXCEPT !.op = "update", !.table = table, !.values = values,
                        !.condition = condition],
         update(Handle, table, values, condition))

CallDelete(table, condition) ==
    Call([NoCall EXCEPT !.op = "delete", !.table = table, !.condition = condition],
         delete(Handle, table, condition))

\* ---------------------------------------------------------------------
\* The record store behind one open handle (SpecStore)
\* ---------------------------------------------------------------------
InitStore ==
    /\ conn = "open"
    /\ disk = initialization_body(EmptyDb).h.disk
    /\ work = disk
    /\ intx = FALSE
    /\ last = [NoCall EXCEPT !.op = "__enter__", !.open = TRUE, !.pre = disk,
                              !.predisk = disk]
    /\ hist = [phase |-> "inserts", recs |-> <<>>, given |-> 0]
    /\ cli = NoCli

StoreTables == CallTables

StoreCreate ==
    \/ CallCreate(PASSWORD_TBL, PasswordColumns)
    \/ \E cols \in {OtherColumns, TwoKeys} : CallCreate(OTHER_TBL, cols)

StoreColumns == \E table \in TableNames : CallColumns(table)

StoreUniqueColumns == \E table \in TableNames : CallUniqueColumns(table)

StoreInsert ==
    \/ \E data \in Datas : CallInsert(PASSWORD_TBL, data)
    \/ CallInsert(OTHER_TBL, Entry(A))

StoreSelect ==
    \/ \E condition \in SelectConditions, mode \in Modes, limit \in Limits :
          CallSelect(PASSWORD_TBL, <<>>, condition, mode, limit)
    \/ \E cols \in {<<"id", "name">>, <<"nocol">>} :
          CallSelect(PASSWORD_TBL, cols, <<>>, "fetch-all", NoLimit)
    \/ CallSelect(OTHER_TBL, <<>>, <<>>, "fetch-all", NoLimit)

StoreUpdate ==
    \/ \E values \in Updates, condition \in Conditions :
          CallUpdate(PASSWORD_TBL, values, condition)
    \/ CallUpdate(OTHER_TBL, [name |-> A], <<>>)

StoreDelete ==
    \/ \E condition \in Conditions : CallDelete(PASSWORD_TBL, condition)
    \/ CallDelete(OTHER_TBL, <<>>)

NextStore ==
    \/ StoreTables
    \/ StoreCreate
    \/ StoreColumns
    \/ StoreUniqueColumns
    \/ StoreInsert
    \/ StoreSelect
    \/ StoreUpdate
    \/ StoreDelete

SpecStore == InitStore /\ [][NextStore]_vars

\* ---------------------------------------------------------------------
\* insert and delete on the passwords table, with more records (SpecInsert)
\* ---------------------------------------------------------------------
\* Records with the explicit ids 0 and 1, as import_passwords passes them
\* when the CSV file has an id column
WithId(n) == [id |-> IntV(n), name |-> A, website |-> A, password |-> A]

InsertAny ==
    \E data \in Datas \cup {WithId(0), WithId(1)} : CallInsert(PASSWORD_TBL, data)

DeleteAny == \E condition \in {<<>>, ById(1)} : CallDelete(PASSWORD_TBL, condition)

NextInsert ==
    \/ InsertAny
    \/ DeleteAny

SpecInsert == InitStore /\ [][NextInsert]_vars

\* ---------------------------------------------------------------------
\* Records without an id inserted, updated and deleted (SpecIds)
\* ---------------------------------------------------------------------
IdInsert ==
    \E data \in {d \in Datas : "id" \notin DOMAIN d} : CallInsert(PASSWORD_TBL, data)

IdUpdate ==
    \E values \in Updates, condition \in Conditions :
        CallUpdate(PASSWORD_TBL, values, condition)

IdDelete == \E condition \in Conditions : CallDelete(PASSWORD_TBL, condition)

NextIds ==
    \/ IdInsert
    \/ IdUpdate
    \/ IdDelete

SpecIds == InitStore /\ [][NextIds]_vars

\* ---------------------------------------------------------------------
\* The handle's life: construction, scope, release, use after release (Spec)
\* ---------------------------------------------------------------------
Init ==
    /\ conn = "none"
    /\ disk = EmptyDb
    /\ work = EmptyDb
    /\ intx = FALSE
    /\ last = NoCall
    /\ hist = NoHistory
    /\ cli = NoCli

\* initialization(), run when main.py is imported
initialization ==
    LET out == initialization_body(disk)
    IN  /\ conn # "open"
        /\ conn' = "closed"
        /\ disk' = out.h.disk
        /\ work' = out.h.db
        /\ intx' = out.h.intx
        /\ last' = [NoCall EXCEPT !.op = "initialization", !.table = PASSWORD_TBL,
                                  !.columns = PasswordColumns, !.res = out.res,
                                  !.exc = out.exc, !.pre = disk, !.predisk = disk]
        /\ hist' = IF Exists(disk, PASSWORD_TBL) THEN hist
                   ELSE [phase |-> "inserts", recs |-> <<>>, given |-> 0]
        /\ UNCHANGED cli

\* with Database(path=DB_PATH, file=DB_FILE_NAME) as db:
Enter ==
    LET h == enter_method(disk)
    IN  /\ conn # "open"
        /\ conn' = "open"
        /\ disk' = h.disk
        /\ work' = h.db
        /\ intx' = h.intx
        /\ last' = [NoCall EXCEPT !.op = "__enter__", !.open = TRUE, !.pre = disk,
                                  !.predisk = disk]
        /\ UNCHANGED <<hist, cli>>

\* The end of the with block: the body returned (fault = ""), or raised an
\* exception that no Database method caught, such as click.Abort
Exit ==
    \E fault \in {"", "Abort"} :
        LET out == with_exit(Handle, fault)
        IN  /\ conn = "open"
            /\ conn' = "closed"
            /\ disk' = out.h.disk
            /\ work' = out.h.db
            /\ intx' = out.h.intx
            /\ last' = [NoCall EXCEPT !.op = "__exit__", !.fault = fault, !.open = TRUE,
                                      !.res = out.res, !.exc = out.exc, !.pre = work,
                                      !.predisk = disk]
            /\ UNCHANGED <<hist, cli>>

LifeTables == CallTables

LifeCreate == CallCreate(PASSWORD_TBL, PasswordColumns)

LifeColumns == \E table \in TableNames : CallColumns(table)

LifeUniqueColumns == CallUniqueColumns(PASSWORD_TBL)

LifeInsert == \E data \in {Entry(A), [name |-> A, password |-> A]} :
    CallInsert(PASSWORD_TBL, data)

LifeSelect == \E mode \in Modes : CallSelect(PASSWORD_TBL, <<>>, ById(1), mode, NoLimit)

LifeUpdate == CallUpdate(PASSWORD_TBL, [name |-> Apostrophe], ById(1))

LifeDelete == \E condition \in {<<>>, ById(1)} : CallDelete(PASSWORD_TBL, condition)

Next ==
    \/ initialization
    \/ Enter
    \/ Exit
    \/ LifeTables
    \/ LifeCreate
    \/ LifeColumns
    \/ LifeUniqueColumns
    \/ LifeInsert
    \/ LifeSelect
    \/ LifeUpdate
    \/ LifeDelete

Spec == Init /\ [][Next]_vars

\* ---------------------------------------------------------------------
\* The commands of main.py (SpecCli)
\* ---------------------------------------------------------------------
Commands ==
    {"list_passwords", "delete_password", "add_password", "edit_password",
     "export_passwords", "import_passwords", "generate_password"}

\* The argument of @login on each command
required(cmd) == cmd # "generate_password"

\* How "su" ends: exit status 0, a non-zero exit status
\* (CalledProcessError), or it cannot be run at all (FileNotFoundError)
SuOutcomes == {"ok", "rejected", "missing"}

\* login's wrapper with the su check left out
wrapper_unchecked(req, su) == "call"

\* login's wrapper: "call" the decorated function, "exit" with
\* sys.exit(1), or "raise" what subprocess.run raised
wrapper(req, su) ==
    IF ~req \/ su = "ok" THEN "call"
    ELSE IF su = "rejected" THEN "exit"
    ELSE "raise"

\* What a command's function did: the handle after its with block (out),
\* the Database methods it called, and how many rows it counted
Body(out, ops, count) == [h |-> out.h, exc |-> out.exc, ops |-> ops, count |-> count]

\* list_passwords: --copy needs --password-id (click rejects the command
\* line otherwise); data[copy] raises KeyError when the row is not found
list_body(d, limit, password_id, copy) ==
    LET h == enter_method(d)
        rows == select(h, PASSWORD_TBL, <<>>, <<>>, "fetch-all", limit)
        password == select(h, PASSWORD_TBL, <<>>, ById(password_id), "fetch-one", NoLimit)
        copying == password_id # 0 /\ copy
        fault == IF copying /\ password.res.kind # "tuple" THEN "KeyError" ELSE ""
    IN  Body(with_exit(h, fault),
             <<"columns", "select">> \o (IF copying THEN <<"select">> ELSE <<>>),
             IF rows.res.kind = "list" THEN Len(rows.res.list) ELSE 0)

\* delete_password: click.confirm(abort=True) raises Abort inside the with
\* block when the user says no
delete_body(d, password_id, force, confirmed) ==
    LET h == enter_method(d)
        out == delete(h, PASSWORD_TBL, ById(password_id))
    IN  IF ~force /\ ~confirmed
        THEN Body(with_exit(h, "Abort"), <<>>, 0)
        ELSE Body(with_exit(out.h, out.exc), <<"delete">>, 0)

add_body(d, data) ==
    LET out == insert(enter_method(d), PASSWORD_TBL, data)
    IN  Body(with_exit(out.h, out.exc), <<"insert">>, 0)

\* edit_password: the row is updated when select found it
edit_body(d, password_id, values) ==
    LET h == enter_method(d)
        found == select(h, PASSWORD_TBL, <<>>, ById(password_id), "fetch-one", NoLimit)
        out == update(h, PASSWORD_TBL, values, ById(password_id))
    IN  IF found.res.kind = "tuple"
        THEN Body(with_exit(out.h, out.exc), <<"columns", "select", "update">>, 0)
        ELSE Body(with_exit(h, ""), <<"columns", "select">>, 0)

\* export_passwords: the header row is the columns that unique_columns
\* does not list, followed by one CSV row per selected row
export_body(h) ==
    LET unique == unique_columns(h, PASSWORD_TBL).res.list
        all == columns(h, PASSWORD_TBL).res.list
        header == SelectSeq(all, LAMBDA column : column \notin Range(unique))
        rows == select(h, PASSWORD_TBL, header, <<>>, "fetch-all", NoLimit).res
    IN  <<header>> \o (IF rows.kind = "list" THEN rows.list ELSE <<>>)

\* bool(result) as import_passwords and add_password test it
IsTruthy(res) == res.kind = "True" \/ (res.kind = "int" /\ res.int # 0)

\* import_passwords: one insert per CSV row, counting the truthy results
RECURSIVE import_rows(_, _, _, _)
import_rows(h, rows, imported, ops) ==
    IF Len(rows) = 0 THEN [h |-> h, imported |-> imported, ops |-> ops]
    ELSE LET out == insert(h, PASSWORD_TBL, Head(rows))
         IN  import_rows(out.h, Tail(rows),
                         imported + (IF IsTruthy(out.res) THEN 1 ELSE 0),
                         ops \o <<"insert">>)

import_body(d, rows) ==
    LET done == import_rows(enter_method(d), rows, 0, <<>>)
    IN  Body(with_exit(done.h, ""), done.ops, done.imported)

\* generate_password opens no database
generate_body(d) ==
    Body([h |-> [open |-> FALSE, disk |-> d, db |-> d, intx |-> FALSE], exc |-> ""],
         <<>>, 0)

\* What the prompts of add_password and edit_password collect
Prompted(name) ==
    [name |-> name, website |-> A, username |-> A, password |-> A, note |-> TextV(<<>>)]

\* CSV files offered to import_passwords: the header names the columns and
\* every value is a text
CsvRow(id) == [id |-> TextV(<<id>>), name |-> A, website |-> A, password |-> A]

CsvFiles ==
    {<<>>, <<Entry(A)>>, <<Entry(A), Entry(A)>>, <<CsvRow("0")>>,
     <<[name |-> A, website |-> A]>>}

\* python passworld.py <command>: importing main.py runs initialization(),
\* then manager() has click call the command, that is login's wrapper
manager ==
    \E cmd \in Commands :
        LET out == initialization_body(disk)
        IN  /\ cli.pc \in {"none", "exited"}
            /\ conn # "open"
            /\ conn' = "closed"
            /\ disk' = out.h.disk
            /\ work' = out.h.db
            /\ intx' = out.h.intx
            /\ last' = [NoCall EXCEPT !.op = "initialization", !.table = PASSWORD_TBL,
                                      !.columns = PasswordColumns, !.res = out.res,
                                      !.exc = out.exc, !.pre = disk, !.predisk = disk]
            /\ hist' = IF Exists(disk, PASSWORD_TBL) THEN hist
                       ELSE [phase |-> "inserts", recs |-> <<>>, given |-> 0]
            /\ cli' = [NoCli EXCEPT !.pc = "login", !.cmd = cmd,
                                    !.before = PasswordRows(disk)]

\* login's wrapper: su is run with the password that was typed
login ==
    \E su \in SuOutcomes :
        LET todo == wrapper(required(cli.cmd), su)
        IN  /\ cli.pc = "login"
            /\ cli' = [cli EXCEPT
                          !.auth = IF ~required(cli.cmd) THEN "none"
                                   ELSE IF su = "ok" THEN "ok" ELSE "failed",
                          !.pc = IF todo = "call" THEN "body" ELSE "exited",
                          !.status = IF todo = "call" THEN 0 ELSE 1]
            /\ UNCHANGED <<conn, disk, work, intx, last, hist>>

\* The decorated function runs to its end and the process exits
Run(cmd, body, res) ==
    /\ cli.pc = "body"
    /\ cli.cmd = cmd
    /\ WithinBounds(body.h.db)
    /\ conn' = "closed"
    /\ disk' = body.h.disk
    /\ work' = body.h.db
    /\ intx' = body.h.intx
    /\ last' = [NoCall EXCEPT !.op = cmd, !.table = PASSWORD_TBL, !.res = res,
                              !.exc = body.exc, !.pre = disk, !.predisk = disk]
    /\ hist' = IF body.h.disk = disk THEN hist
               ELSE [phase |-> "other", recs |-> <<>>, given |-> hist.given]
    /\ cli' = [cli EXCEPT !.pc = "exited", !.status = IF body.exc = "" THEN 0 ELSE 1,
                          !.ops = body.ops, !.count = body.count]

list_passwords ==
    \E limit \in {Limit(n) : n \in 0..MaxLimit}, password_id \in 0..1, copy \in BOOLEAN :
        /\ copy => password_id # 0
        /\ Run("list_passwords", list_body(disk, limit, password_id, copy), R_None)

delete_password ==
    \E password_id \in 1..MaxId, force \in BOOLEAN, confirmed \in BOOLEAN :
        Run("delete_password", delete_body(disk, password_id, force, confirmed), R_None)

add_password ==
    \E name \in {A, Apostrophe} :
        Run("add_password", add_body(disk, Prompted(name)), R_None)

edit_password ==
    \E password_id \in 1..MaxId, name \in {A, Apostrophe} :
        Run("edit_password", edit_body(disk, password_id, Prompted(name)), R_None)

export_passwords ==
    LET h == enter_method(disk)
    IN  Run("export_passwords",
            Body(with_exit(h, ""), <<"unique_columns", "columns", "select">>, 0),
            R_List(export_body(h)))

import_passwords ==
    \E rows \in CsvFiles :
        Run("import_passwords", import_body(disk, rows), R_None)

generate_password == Run("generate_password", generate_body(disk), R_None)

NextCli ==
    \/ manager
    \/ login
    \/ list_passwords
    \/ delete_password
    \/ add_password
    \/ edit_password
    \/ export_passwords
    \/ import_passwords
    \/ generate_password

SpecCli == Init /\ [][NextCli]_vars

\* ---------------------------------------------------------------------
\* Properties
\* ---------------------------------------------------------------------
\* C1: however the body of a scope ends, __exit__ has committed and closed:
\* the handle is closed, no transaction is left open, the file holds
\* exactly what the connection saw at the end of the scope, and the next
\* handle starts from the file.
C1_ReleaseCommitsAndCloses ==
    /\ last.op = "__exit__" =>
          /\ conn = "closed"
          /\ ~intx
          /\ disk = last.pre
    /\ last.op = "__enter__" => conn = "open" /\ work = disk

\* C1 witness: a scope that ended with an exception after a write inside it
\* had changed the passwords table
C1_Witness ==
    /\ last.op = "__exit__"
    /\ last.fault = "Abort"
    /\ last.predisk # last.pre
    /\ Len(PasswordRows(disk)) > Len(PasswordRows(last.predisk))

\* C6: no Database method raises to its caller, whatever the state of
\* the handle
C6_NeverRaises ==
    last.op \in {"tables", "create", "columns", "unique_columns", "insert",
                 "select", "update", "delete"} => last.exc = ""

\* C7: creating the passwords table when it exists does not raise and
\* changes neither its columns nor any stored row
C7_CreateIdempotent ==
    /\ last.op \in {"create", "initialization"}
    /\ last.table = PASSWORD_TBL
    /\ Exists(last.pre, PASSWORD_TBL)
    => /\ last.exc = ""
       /\ work = last.pre
       /\ disk = last.predisk
       /\ table_info(work, PASSWORD_TBL) = table_info(last.pre, PASSWORD_TBL)

\* C7 witness: initialization() ran on a file whose passwords table holds rows
C7_Witness ==
    /\ last.op = "initialization"
    /\ Exists(last.pre, PASSWORD_TBL)
    /\ Len(PasswordRows(last.pre)) > 0

\* A record whose values have the type of their column
Typed(cols, data) ==
    \A c \in DOMAIN data :
        \/ ColumnOf(cols, c).type = "INTEGER" /\ data[c].t = "int"
        \/ ColumnOf(cols, c).type = "TEXT" /\ data[c].t \in {"text", "null"}

ColumnNames(cols) == [k \in 1..Len(cols) |-> cols[k].name]

RowTuple(cols, row) == [k \in 1..Len(cols) |-> row[cols[k].name]]

FetchOneById(n) == select(Handle, PASSWORD_TBL, <<>>, ById(n), "fetch-one", NoLimit)

\* C2: a typed record that insert has just added to passwords is what
\* select returns for {id: identity} in "fetch-one" mode, on every column
\* that was supplied; and every stored row is found under its own id.
C2_RoundTrip ==
    LET cols == work.tbl[PASSWORD_TBL].cols
        rows == PasswordRows(work)
    IN  /\ /\ last.op = "insert"
           /\ last.table = PASSWORD_TBL
           /\ last.res.kind = "int"
           /\ Typed(cols, last.data)
           => LET got == FetchOneById(last.res.int)
              IN  /\ got.res.kind = "tuple"
                  /\ \A k \in 1..Len(cols) :
                        cols[k].name \in DOMAIN last.data
                        => got.res.list[k] = last.data[cols[k].name]
        /\ \A r \in 1..Len(rows) :
              FetchOneById(rows[r]["id"].i).res = R_Tuple(RowTuple(cols, rows[r]))

\* C2 witness: a record with an apostrophe in its name was inserted after
\* the table had been changed by something other than plain inserts, and is
\* not the first row
C2_Witness ==
    /\ last.op = "insert"
    /\ last.table = PASSWORD_TBL
    /\ last.res = R_Int(2)
    /\ last.data = Entry(Apostrophe)
    /\ hist.phase = "other"
    /\ Len(PasswordRows(work)) = 2

TableOps == {"insert", "select", "update", "delete", "columns", "unique_columns"}

\* C5: a table-scoped call that names a table which does not exist prints
\* the "does not exist" panel, returns False or an empty list, raises
\* nothing, and leaves every table and row as it was (the named table is
\* still missing).
C5_MissingTable ==
    /\ last.op \in TableOps
    /\ ~Exists(last.pre, last.table)
    => /\ last.diag
       /\ last.exc = ""
       /\ last.res \in {R_False, R_List(<<>>)}
       /\ work = last.pre
       /\ disk = last.predisk
       /\ ~Exists(work, last.table)

\* C5 witness: an insert into the missing table while passwords holds rows
C5_Witness ==
    /\ last.op = "insert"
    /\ last.table = OTHER_TBL
    /\ ~Exists(last.pre, OTHER_TBL)
    /\ last.diag
    /\ Len(PasswordRows(work)) > 0

SelectAll == select(Handle, PASSWORD_TBL, <<>>, <<>>, "fetch-all", NoLimit)

\* The tuple select returns for a record that was inserted without an id
\* and was given the identity n
Stored(cols, n, data) ==
    [k \in 1..Len(cols) |->
        IF cols[k].name = "id" THEN IntV(n)
        ELSE IF cols[k].name \in DOMAIN data THEN data[cols[k].name]
        ELSE None]

Satisfies(row, condition) ==
    \A k \in 1..Len(condition) : row[condition[k][1]] = condition[k][2]

\* C3: delete returns False and changes nothing when no row satisfies the
\* predicate; otherwise it returns True and removes exactly the rows that
\* satisfy it; without a predicate every row satisfies it.
C3_DeleteContract ==
    /\ last.op = "delete"
    /\ Exists(last.pre, last.table)
    => LET before == last.pre.tbl[last.table].rows
           hit(r) == Satisfies(r, last.condition)
           miss(r) == ~Satisfies(r, last.condition)
       IN  IF Len(SelectSeq(before, hit)) = 0
           THEN last.res = R_False /\ work = last.pre
           ELSE /\ last.res = R_True
                /\ work = [last.pre EXCEPT !.tbl[last.table].rows = SelectSeq(before, miss)]

\* C4: update overwrites every listed column on exactly the rows that
\* satisfy the predicate (all rows without one), leaves every other row and
\* column as it was, and returns True exactly when some row satisfied the
\* predicate.  Stated for values that the table's constraints admit.
C4_UpdateContract ==
    /\ last.op = "update"
    /\ Exists(last.pre, last.table)
    => LET cols == last.pre.tbl[last.table].cols
           before == last.pre.tbl[last.table].rows
           hit(r) == Satisfies(r, last.condition)
           wanted == [k \in 1..Len(before) |->
                        IF hit(before[k])
                        THEN [c \in DOMAIN before[k] |->
                                IF c \in DOMAIN last.values THEN last.values[c]
                                ELSE before[k][c]]
                        ELSE before[k]]
       IN  ~Violates(cols, wanted)
           => /\ work = [last.pre EXCEPT !.tbl[last.table].rows = wanted]
              /\ last.res = R_Bool(Len(SelectSeq(before, hit)) > 0)

\* C9: unique_columns returns exactly the columns that carry a PRIMARY KEY
\* or a UNIQUE constraint; for the passwords table that is none of name,
\* website, username, password, note, and the header export writes is
\* those five columns in schema order.
C9_UniqueColumns ==
    /\ /\ last.op = "unique_columns"
       /\ Exists(last.pre, last.table)
       => LET cols == last.pre.tbl[last.table].cols
              constrained(c) == c.pk > 0 \/ c.unique
          IN  last.res = R_List(ColumnNames(SelectSeq(cols, constrained)))
    /\ last.op = "export_passwords" =>
          last.res.list[1] = <<"name", "website", "username", "password", "note">>

Min(a, b) == IF a < b THEN a ELSE b

\* The handle as it was when the last call was made
Before == [open |-> last.open, disk |-> last.predisk, db |-> last.pre, intx |-> FALSE]

\* What the last select returns when it is given no limit
Unlimited ==
    select(Before, last.table, last.columns, last.condition, last.mode, NoLimit).res

\* In "fetch-all" mode an integer limit L >= 0 makes select return the first
\* L rows of what it returns without a limit (all of them when there are
\* fewer)
FetchAllLimited ==
    /\ last.op = "select"
    /\ Exists(last.pre, last.table)
    /\ last.mode = "fetch-all"
    /\ last.limit.some
    /\ last.limit.v >= 0
    /\ Unlimited.kind = "list"
    => last.res = R_List(SubSeq(Unlimited.list, 1,
                                Min(last.limit.v, Len(Unlimited.list))))

\* In "fetch-one" mode the limit changes nothing, and a statement that
\* SQLite accepts yields one row, or None when no row satisfies the predicate
FetchOneUnlimited ==
    /\ last.op = "select"
    /\ Exists(last.pre, last.table)
    /\ last.mode = "fetch-one"
    => /\ last.res = Unlimited
       /\ last.res.kind \in {"tuple", "None", "False"}
       /\ last.res.kind = "None" =>
             \A r \in 1..Len(last.pre.tbl[last.table].rows) :
                 ~Satisfies(last.pre.tbl[last.table].rows[r], last.condition)

\* C10: select in "fetch-all" mode with an integer limit L >= 0 returns the
\* first L rows of the unlimited result, and select in "fetch-one" mode
\* ignores the limit and returns a single row or None.
C10_Limit == FetchAllLimited /\ FetchOneUnlimited

\* The Database methods that read or write records
RecordOps == {"select", "insert", "update", "delete"}

LacksRequired(cols, data) ==
    \E k \in 1..Len(cols) :
        /\ cols[k].notnull
        /\ cols[k].name \notin DOMAIN data \/ data[cols[k].name].t = "null"

\* C12: insert into an existing table returns False exactly when it added
\* no row; a record that lacks a NOT NULL column is refused and the table
\* stays as it was; and when a row was added the result is the id of that
\* row and is truthy.  import_passwords therefore reports as many records
\* as it added.
C12_InsertResult ==
    /\ /\ last.op = "insert"
       /\ last.open
       /\ Exists(last.pre, last.table)
       => LET before == last.pre.tbl[last.table].rows
              after == work.tbl[last.table].rows
              added == Len(after) = Len(before) + 1
          IN  /\ last.res.kind \in {"int", "False"}
              /\ last.res.kind = "False" <=> after = before
              /\ LacksRequired(last.pre.tbl[last.table].cols, last.data) =>
                    last.res.kind = "False"
              /\ after # before =>
                    /\ added
                    /\ \E r \in 1..Len(after) :
                          /\ after[r]["id"] = IntV(last.res.int)
                          /\ \A q \in 1..Len(before) : before[q]["id"] # after[r]["id"]
                    /\ IsTruthy(last.res)
    /\ last.op = "import_passwords" =>
          cli.count = Len(PasswordRows(disk)) - Len(PasswordRows(last.pre))

\* C13: when the body of a scope raised an exception that no Database
\* method caught, __exit__ commits and closes and the exception goes on to
\* the caller of the scope.
C13_FaultReachesCaller ==
    /\ last.op = "__exit__"
    /\ last.fault # ""
    => /\ conn = "closed"
       /\ ~intx
       /\ disk = last.pre
       /\ last.exc = last.fault

\* C14: on the passwords table no two rows have the same id, and every id
\* that insert returns for a record without an id is greater than every id
\* it returned for such a record before, so the id of a deleted row is
\* not given again.
C14_IdentitiesGrow ==
    [][/\ \A r, q \in 1..Len(PasswordRows(work')) :
             PasswordRows(work')[r]["id"] = PasswordRows(work')[q]["id"] => r = q
       /\ /\ last'.op = "insert"
          /\ last'.table = PASSWORD_TBL
          /\ "id" \notin DOMAIN last'.data
          /\ last'.res.kind = "int"
          => last'.res.int > hist.given]_vars

====
